---------------------------- MODULE Spec2Model ----------------------------
(***************************************************************************)
(* A model of artisans_scripts/main.py: the bearer token, the token        *)
(* manager and the paginated fetch loop get_all_coworkers.                 *)
(*                                                                         *)
(* Strings whose characters the code inspects (TeamIds) are sequences of   *)
(* one-character strings.  Python's None is the empty tuple None and a     *)
(* present value x is Some(x), so that None never compares with a number.  *)
(***************************************************************************)
EXTENDS Integers, Sequences, FiniteSets, TLC

None == <<>>
Some(x) == <<x>>

(***************************************************************************)
(* Bounds of the model.                                                    *)
(***************************************************************************)
\* the listing endpoint answers 401 at most Max401 times in one run
Max401 == 2
\* wall-clock readings (datetime.now(), in ms) are drawn from 0..MaxTime
MaxTime == 1
\* an arbitrary server reports CurrentPage in 1..MaxCurrentPage
MaxCurrentPage == 2
\* TeamIds values of every length up to MaxTeamIdsLen are parsed
MaxTeamIdsLen == 3

(***************************************************************************)
(* Program constants.                                                      *)
(***************************************************************************)
max_pages == 5
UNAUTHORIZED == 401

Times == 0 .. MaxTime

(***************************************************************************)
(* NexudusCoworker.from_json                                               *)
(***************************************************************************)
JNull == [type |-> "null"]
JStr(chars) == [type |-> "string", chars |-> chars]

DigitValue(c) ==
    CASE c = "0" -> 0 [] c = "1" -> 1 [] c = "2" -> 2 [] c = "3" -> 3
      [] c = "4" -> 4 [] c = "5" -> 5 [] c = "6" -> 6 [] c = "7" -> 7
      [] c = "8" -> 8 [] c = "9" -> 9

IsDigit(c) == c \in {"0", "1", "2", "3", "4", "5", "6", "7", "8", "9"}

\* str.split(","): the pieces between commas, at least one piece
RECURSIVE SplitComma(_)
SplitComma(s) ==
    IF s = <<>> THEN << <<>> >>
    ELSE LET rest == SplitComma(Tail(s))
         IN  IF Head(s) = ","
             THEN << <<>> >> \o rest
             ELSE << <<Head(s)>> \o Head(rest) >> \o Tail(rest)

RECURSIVE DigitsValue(_, _)
DigitsValue(s, acc) ==
    IF s = <<>> THEN acc ELSE DigitsValue(Tail(s), 10 * acc + DigitValue(Head(s)))

\* int(piece) for a piece made of digits and letters: ValueError on the empty
\* piece and on any character that is no digit
IntOf(piece) ==
    IF piece # <<>> /\ \A i \in 1 .. Len(piece) : IsDigit(piece[i])
    THEN [ok |-> TRUE, value |-> DigitsValue(piece, 0)]
    ELSE [ok |-> FALSE, error |-> "ValueError"]

\* faulty variant: only None is falsy, the empty string is split
TruthyUnlessNone(json) == json.type = "string"

\* the truthiness of response_json["TeamIds"]: None and "" are falsy
Truthy(json) == json.type = "string" /\ json.chars # <<>>

NexudusCoworker_from_json(response_json) ==
    IF "TeamIds" \notin DOMAIN response_json
    THEN [ok |-> FALSE, error |-> "KeyError"]
    ELSE LET team_ids_response_value == response_json.TeamIds
             pieces == IF Truthy(team_ids_response_value)
                       THEN SplitComma(team_ids_response_value.chars)
                       ELSE <<>>
             parsed == [i \in 1 .. Len(pieces) |-> IntOf(pieces[i])]
         IN  IF \E i \in 1 .. Len(parsed) : ~parsed[i].ok
             THEN [ok |-> FALSE, error |-> "ValueError"]
             ELSE IF ~({"FullName", "Id", "Email"} \subseteq DOMAIN response_json)
             THEN [ok |-> FALSE, error |-> "KeyError"]
             ELSE [ok |-> TRUE,
                   value |-> [display_name |-> response_json.FullName,
                              coworker_id |-> response_json.Id,
                              team_ids |-> {parsed[i].value : i \in 1 .. Len(parsed)},
                              email_address |-> response_json.Email]]

(***************************************************************************)
(* NexudusBearerToken: the attrs-generated __repr__                        *)
(***************************************************************************)
\* faulty variant: the field is rendered as it is
ReprPlain(value) == value

\* repr=lambda _value: "****"
ReprSecret(value) == "****"

\* repr=lambda value: value.isoformat(); a time is a number of ms
ReprIsoformat(value) == <<"isoformat", value>>

\* the rendering: the class name, then name and rendering of every field in
\* the order of declaration
NexudusBearerToken_repr(token) ==
    <<"NexudusBearerToken",
      <<"access_token", ReprSecret(token.access_token)>>,
      <<"refresh_token", ReprSecret(token.refresh_token)>>,
      <<"expires_in_ms", token.expires_in_ms>>,
      <<"issued_at", ReprIsoformat(token.issued_at)>>,
      <<"expires_at", ReprIsoformat(token.expires_at)>> >>

(***************************************************************************)
(* NexudusBearerToken.from_json                                            *)
(***************************************************************************)
\* faulty variant: the expiry is counted from the wall clock, not from the
\* time of issue
NexudusBearerToken_from_json_WallExpiry(response_json, now, wall) ==
    LET current_time == IF now # None THEN now[1] ELSE wall
    IN  IF ~({"expires_in", "access_token", "refresh_token"}
                \subseteq DOMAIN response_json)
        THEN [ok |-> FALSE, error |-> "KeyError"]
        ELSE [ok |-> TRUE,
              value |-> [access_token |-> response_json.access_token,
                         refresh_token |-> response_json.refresh_token,
                         expires_in_ms |-> response_json.expires_in,
                         issued_at |-> current_time,
                         expires_at |-> wall + response_json.expires_in]]

\* now is None or Some(t); wall is the reading datetime.now() would give
NexudusBearerToken_from_json(response_json, now, wall) ==
    LET current_time == IF now # None THEN now[1] ELSE wall
    IN  IF "expires_in" \notin DOMAIN response_json
        THEN [ok |-> FALSE, error |-> "KeyError"]
        ELSE LET expires_in_ms == response_json.expires_in
                 expires_at == current_time + expires_in_ms
             IN  IF ~({"access_token", "refresh_token"} \subseteq DOMAIN response_json)
                 THEN [ok |-> FALSE, error |-> "KeyError"]
                 ELSE [ok |-> TRUE,
                       value |-> [access_token |-> response_json.access_token,
                                  refresh_token |-> response_json.refresh_token,
                                  expires_in_ms |-> expires_in_ms,
                                  issued_at |-> current_time,
                                  expires_at |-> expires_at]]


(***************************************************************************)
(* The environment: the two endpoints.                                     *)
(***************************************************************************)
Ann == [FullName |-> "Ann", Id |-> 1, Email |-> "ann@example.org",
        TeamIds |-> JStr(<<"3", ",", "7", ",", "7">>)]
Bob == [FullName |-> "Bob", Id |-> 2, Email |-> "bob@example.org",
        TeamIds |-> JStr(<<>>)]
Cy == [FullName |-> "Cy", Id |-> 3, Email |-> "cy@example.org",
       TeamIds |-> JNull]
Dee == [FullName |-> "Dee", Id |-> 4, Email |-> "dee@example.org",
        TeamIds |-> JStr(<<"1", "2">>)]
\* a record whose TeamIds has an empty element
Eve == [FullName |-> "Eve", Id |-> 5, Email |-> "eve@example.org",
        TeamIds |-> JStr(<<"3", ",", ",", "7">>)]

\* the records a paged server holds on page p
Catalogue(p) ==
    CASE p = 1 -> <<Ann, Bob>>
      [] p = 2 -> <<Cy>>
      [] p = 3 -> <<>>
      [] p = 4 -> <<Dee, Ann>>
      [] p = 5 -> <<Bob>>
      [] OTHER -> <<Cy, Dee>>

\* the Records arrays an arbitrary server answers with
Bodies == {<<>>, <<Ann>>, <<Bob, Ann>>}

PageBody(cp, hn, ti, recs) ==
    [CurrentPage |-> cp, TotalPages |-> 1, HasNextPage |-> hn,
     TotalItems |-> ti, Records |-> recs]

Without(body, key) == [k \in DOMAIN body \ {key} |-> body[k]]

\* success bodies that cannot be parsed
MalformedBodies ==
    {Without(PageBody(1, TRUE, 3, <<Ann>>), "HasNextPage"),
     Without(PageBody(1, TRUE, 3, <<Ann>>), "Records"),
     PageBody(1, TRUE, 3, <<Ann, Eve>>)}

\* the characters of the TeamIds values tried: digits, the comma, a letter
TeamIdChars == {"3", "7", ",", "x"}

\* the TeamIds values tried: null, every string of up to MaxTeamIdsLen
\* characters, and two longer ones
TeamIdsInputs ==
    {JNull}
        \cup {JStr(chars) : chars \in UNION {[1 .. n -> TeamIdChars] :
                                                n \in 0 .. MaxTeamIdsLen}}
        \cup {JStr(<<"3", ",", "7", ",", "7">>), JStr(<<"3", ",", ",", "7">>)}

Tom(team_ids) == [FullName |-> "Tom", Id |-> 6, Email |-> "tom@example.org",
                  TeamIds |-> team_ids]

\* a server of one page with the one record Tom, whose TeamIds it fixes
TeamsServers ==
    {[kind |-> "teams", N |-> 1, TeamIds |-> t] : t \in TeamIdsInputs}

\* The listing servers.  A paged server has N pages, echoes the requested page
\* and reports HasNextPage on all pages but the last; an endless one reports
\* HasNextPage on every page; an unruly one reports any CurrentPage and any
\* HasNextPage with the catalogue's records; an arbitrary one answers anything.
Servers ==
    {[kind |-> "paged", N |-> n] : n \in 1 .. max_pages}
        \cup {[kind |-> k, N |-> 0] : k \in {"endless", "unruly", "arbitrary"}}
        \cup TeamsServers

\* the bodies server srv may send with status 200 to a request for page p
ServerBodies(srv, p) ==
    CASE srv.kind = "paged" -> {PageBody(p, p < srv.N, 3, Catalogue(p))}
      [] srv.kind = "endless" -> {PageBody(p, TRUE, 3, Catalogue(p))}
      [] srv.kind = "teams" -> {PageBody(p, FALSE, 1, <<Tom(srv.TeamIds)>>)}
      [] srv.kind = "unruly" ->
            {PageBody(cp, hn, 3, Catalogue(cp)) :
                cp \in 1 .. MaxCurrentPage, hn \in BOOLEAN} \cup MalformedBodies
      [] OTHER ->
            {PageBody(cp, hn, Len(recs), recs) :
                cp \in 1 .. MaxCurrentPage, hn \in BOOLEAN,
                recs \in Bodies} \cup MalformedBodies

\* non-success statuses other than 401
ErrorStatuses == {403, 500}

\* the well-formed bodies the token endpoint answers with
TokenJsons ==
    {[access_token |-> "at1", refresh_token |-> "rt1", expires_in |-> 3],
     [access_token |-> "at2", refresh_token |-> "", expires_in |-> 0]}

MalformedTokenJsons ==
    {[access_token |-> "at1", refresh_token |-> "rt1"],
     [access_token |-> "at1", expires_in |-> 3]}

(***************************************************************************)
(* State.                                                                  *)
(***************************************************************************)
VARIABLES
    pc,                    \* "loop", "refresh", "done", "raised"
    current_bearer_token,  \* NexudusBearerTokenManager.current_bearer_token
    page,                  \* query_parameters["page"]
    all_coworkers,
    is_complete,
    pages_fetched,
    expected_records,
    result,                \* None, or Some(the list returned)
    raised,                \* None, or Some(the exception type raised)
    server,                \* the listing server of this run
    nRequests,             \* history: listing requests issued
    n401,                  \* history: 401 responses of the listing endpoint
    nRefresh,              \* history: calls of refresh_bearer_token
    lastSent,              \* history: page cursor of the last listing request
    lastEvent,             \* history: what the last step handled
    received,              \* history: Records of the successful responses
    lastResponse,          \* history: cursor fields of the success response
                           \* the last step handled, None if it handled none
    lastAuth,              \* history: headers of the listing request the last
                           \* step sent, None if it sent none
    lastContent            \* history: content of the token request the last
                           \* step sent, None if it sent none

vars == <<pc, current_bearer_token, page, all_coworkers, is_complete,
          pages_fetched, expected_records, result, raised, server,
          nRequests, n401, nRefresh, lastSent, lastEvent, received,
          lastResponse, lastAuth, lastContent>>

fetchVars == <<page, all_coworkers, is_complete, pages_fetched, expected_records>>

\* the model stops issuing listing requests here; the program never gets there
MaxRequests == max_pages + Max401 + 1

(***************************************************************************)
(* NexudusBearerTokenManager: what it sends                                *)
(***************************************************************************)
\* faulty variant: the header carries the refresh token
as_request_headers_RefreshToken(token) ==
    [authorization |-> "Bearer " \o token.refresh_token]

\* lines 97-98
as_request_headers(token) ==
    [authorization |-> "Bearer " \o token.access_token]

\* line 89: the content posted to the token endpoint; the f-string has a
\* literal f between "refresh_token=" and the replacement field
RefreshContent(token) ==
    "grant_type=refresh_token&refresh_token=f" \o token.refresh_token

(***************************************************************************)
(* get_all_coworkers: one iteration of the loop on a success response.     *)
(***************************************************************************)
\* faulty variant: the cap compared with > instead of >=
CompletesAfterOffByOne(fetched, has_next_page) ==
    fetched > max_pages \/ ~has_next_page

\* faulty variant: no page cap
CompletesAfterNoCap(fetched, has_next_page) == ~has_next_page

\* line 157: the fetch completes on the page cap or on the last page
CompletesAfter(fetched, has_next_page) ==
    fetched >= max_pages \/ ~has_next_page

\* faulty variant: every response counts as a page
PagesFetchedCountsAll(fetched, status_error) == fetched + 1

\* line 149: pages_fetched += 1 is inside the try, after raise_for_status
\* (line 140), so a response that raises HTTPStatusError is not counted
PagesFetchedAfter(fetched, status_error) ==
    IF status_error THEN fetched ELSE fetched + 1

\* faulty variant: the cursor is not advanced
NextCursorNoAdvance(requested, current_page) == current_page

\* faulty variant: the cursor advances from the page that was requested
NextCursorFromRequested(requested, current_page) == requested + 1

\* line 161: the cursor of the next request
NextCursor(requested, current_page) == current_page + 1

\* faulty variant: a record that does not parse is left out
MapCoworkersSkipping(records) ==
    LET parsed == [i \in 1 .. Len(records) |-> NexudusCoworker_from_json(records[i])]
        good == SelectSeq(parsed, LAMBDA r : r.ok)
    IN  [ok |-> TRUE, value |-> [i \in 1 .. Len(good) |-> good[i].value]]

\* lines 162-164: every record is mapped, in order; the first failure raises
MapCoworkers(records) ==
    LET parsed == [i \in 1 .. Len(records) |-> NexudusCoworker_from_json(records[i])]
        bad == {i \in 1 .. Len(records) : ~parsed[i].ok}
    IN  IF bad = {}
        THEN [ok |-> TRUE, value |-> [i \in 1 .. Len(records) |-> parsed[i].value]]
        ELSE [ok |-> FALSE,
              error |-> parsed[CHOOSE i \in bad : \A j \in bad : i <= j].error]

\* faulty variant: the new page is put in front
AccumulateInFront(coworkers, current_page_coworkers) ==
    current_page_coworkers \o coworkers

\* line 165: all_coworkers += current_page_coworkers
Accumulate(coworkers, current_page_coworkers) ==
    coworkers \o current_page_coworkers

\* lines 144-165: the locals after a success response with this body, and the
\* exception the iteration raised, if any
HandlePage(body) ==
    LET before == [page |-> page, all_coworkers |-> all_coworkers,
                   is_complete |-> is_complete, pages_fetched |-> pages_fetched,
                   expected_records |-> expected_records, error |-> None]
    IN  IF ~({"CurrentPage", "TotalPages", "HasNextPage"} \subseteq DOMAIN body)
        THEN [before EXCEPT !.error = Some("KeyError")]
        ELSE IF expected_records = None /\ "TotalItems" \notin DOMAIN body
        THEN [before EXCEPT !.error = Some("KeyError")]
        ELSE
        LET current_page == body.CurrentPage
            has_next_page == body.HasNextPage
            expected == IF expected_records = None
                        THEN Some(body.TotalItems) ELSE expected_records
            fetched == PagesFetchedAfter(pages_fetched, FALSE)
            complete == CompletesAfter(fetched, has_next_page)
            counted == [before EXCEPT
                           !.expected_records = expected,
                           !.pages_fetched = fetched,
                           !.is_complete = IF complete THEN TRUE ELSE is_complete,
                           !.page = IF complete THEN page
                                    ELSE NextCursor(page, current_page)]
        IN  IF "Records" \notin DOMAIN body
            THEN [counted EXCEPT !.error = Some("KeyError")]
            ELSE LET mapped == MapCoworkers(body.Records)
                 IN  IF ~mapped.ok
                     THEN [counted EXCEPT !.error = Some(mapped.error)]
                     ELSE [counted EXCEPT
                              !.all_coworkers = Accumulate(all_coworkers, mapped.value)]

\* line 132: the loop runs while this holds
LoopContinues == ~is_complete

Requesting ==
    /\ pc = "loop"
    /\ LoopContinues
    /\ nRequests < MaxRequests

\* a step that sends no request and handles no response
NothingSent ==
    /\ lastResponse' = None
    /\ lastAuth' = None
    /\ lastContent' = None

\* lines 134-139: the request carries the cursor and the manager's headers
SendRequest ==
    /\ nRequests' = nRequests + 1
    /\ lastSent' = page
    /\ lastAuth' = Some(as_request_headers(current_bearer_token))

\* lines 134-165: a request answered with success
ListingSuccess ==
    /\ Requesting
    /\ SendRequest
    /\ \E body \in ServerBodies(server, page) :
          \E out \in {HandlePage(body)} :
              /\ page' = out.page
              /\ all_coworkers' = out.all_coworkers
              /\ is_complete' = out.is_complete
              /\ pages_fetched' = out.pages_fetched
              /\ expected_records' = out.expected_records
              /\ raised' = out.error
              /\ pc' = IF out.error = None THEN "loop" ELSE "raised"
              /\ lastEvent' = IF out.error = None THEN "page" ELSE "parse_error"
              /\ received' = IF out.error = None
                             THEN Append(received, body.Records) ELSE received
          /\ lastResponse' =
                IF {"CurrentPage", "HasNextPage"} \subseteq DOMAIN body
                THEN Some([CurrentPage |-> body.CurrentPage,
                           HasNextPage |-> body.HasNextPage])
                ELSE None
    /\ lastContent' = None
    /\ UNCHANGED <<current_bearer_token, result, server, n401, nRefresh>>

\* faulty variant: no status is recovered from
OnStatusErrorAlwaysRaise(status) == "raise"

\* faulty variant: every status error is answered with a refresh
OnStatusErrorAlwaysRefresh(status) == "refresh"

\* faulty variant: a 401 is recovered from once, the next one is raised
OnStatusErrorRefreshOnce(status) ==
    IF status = UNAUTHORIZED /\ n401 = 0 THEN "refresh" ELSE "raise"

\* lines 166-168: what the handler does with a status error
OnStatusError(status) ==
    IF status = UNAUTHORIZED THEN "refresh" ELSE "raise"

\* lines 134-140, 166-168: a request answered 401; the handler calls
\* refresh_bearer_token, which posts to the token endpoint
ListingUnauthorized ==
    /\ Requesting
    /\ n401 < Max401
    /\ SendRequest
    /\ n401' = n401 + 1
    /\ lastEvent' = "unauthorized"
    /\ IF OnStatusError(UNAUTHORIZED) = "refresh"
       THEN /\ pc' = "refresh"
            /\ nRefresh' = nRefresh + 1
            /\ raised' = raised
            /\ lastContent' = Some(RefreshContent(current_bearer_token))
       ELSE /\ pc' = "raised"
            /\ nRefresh' = nRefresh
            /\ raised' = Some("HTTPStatusError")
            /\ lastContent' = None
    /\ pages_fetched' = PagesFetchedAfter(pages_fetched, TRUE)
    /\ UNCHANGED <<page, all_coworkers, is_complete, expected_records>>
    /\ lastResponse' = None
    /\ UNCHANGED <<current_bearer_token, result, server, received>>

\* lines 134-140, 166-170: a request answered with another non-success status
ListingError ==
    /\ Requesting
    /\ SendRequest
    /\ \E status \in ErrorStatuses :
          IF OnStatusError(status) = "refresh"
          THEN /\ pc' = "refresh"
               /\ nRefresh' = nRefresh + 1
               /\ raised' = raised
               /\ lastContent' = Some(RefreshContent(current_bearer_token))
          ELSE /\ pc' = "raised"
               /\ nRefresh' = nRefresh
               /\ raised' = Some("HTTPStatusError")
               /\ lastContent' = None
    /\ lastEvent' = "http_error"
    /\ pages_fetched' = PagesFetchedAfter(pages_fetched, TRUE)
    /\ UNCHANGED <<page, all_coworkers, is_complete, expected_records>>
    /\ lastResponse' = None
    /\ UNCHANGED <<current_bearer_token, result, server, n401, received>>

\* line 171
Return ==
    /\ pc = "loop"
    /\ ~LoopContinues
    /\ pc' = "done"
    /\ result' = Some(all_coworkers)
    /\ lastEvent' = "returned"
    /\ UNCHANGED <<fetchVars, current_bearer_token, raised, server,
                   nRequests, n401, nRefresh, lastSent, received>>
    /\ NothingSent

(***************************************************************************)
(* NexudusBearerTokenManager.refresh_bearer_token                          *)
(***************************************************************************)
\* lines 90-95: the token endpoint answers with success and this body
RefreshedToken(json, wall) ==
    NexudusBearerToken_from_json(json, None, wall)

RefreshSuccess ==
    /\ pc = "refresh"
    /\ \E json \in TokenJsons \cup MalformedTokenJsons, wall \in Times :
          \E parsed \in {RefreshedToken(json, wall)} :
              IF parsed.ok
              THEN /\ current_bearer_token' = parsed.value
                   /\ pc' = "loop"
                   /\ raised' = raised
                   /\ lastEvent' = "refreshed"
              ELSE /\ current_bearer_token' = current_bearer_token
                   /\ pc' = "raised"
                   /\ raised' = Some(parsed.error)
                   /\ lastEvent' = "refresh_unparsed"
    /\ UNCHANGED <<fetchVars, result, server, nRequests, n401, nRefresh,
                   lastSent, received>>
    /\ NothingSent

\* faulty variant: the held token is dropped before the answer is looked at
TokenDroppedOnFailure(token) ==
    [token EXCEPT !.access_token = "", !.refresh_token = ""]

\* lines 90-95: raise_for_status raises before line 95 assigns
TokenAfterFailedRefresh(token) == token

\* faulty variant: the loop swallows the error of the refresh and goes on
RefreshErrorSwallowed == "loop"

\* lines 166-168: refresh_bearer_token is called in the except clause, so what
\* it raises leaves get_all_coworkers
RefreshErrorOutcome == "raised"

\* lines 90-92: the token endpoint answers with a non-success status
RefreshFailure ==
    /\ pc = "refresh"
    /\ current_bearer_token' = TokenAfterFailedRefresh(current_bearer_token)
    /\ pc' = RefreshErrorOutcome
    /\ raised' = IF RefreshErrorOutcome = "raised"
                 THEN Some("HTTPStatusError") ELSE raised
    /\ lastEvent' = "refresh_failed"
    /\ UNCHANGED <<fetchVars, result, server, nRequests, n401, nRefresh,
                   lastSent, received>>
    /\ NothingSent

(***************************************************************************)
(* Specification.                                                          *)
(***************************************************************************)
\* NexudusBearerTokenManager.new_instance, then lines 119-131
Init ==
    /\ pc = "loop"
    /\ \E json \in TokenJsons, now \in {None} \cup {Some(t) : t \in Times},
          wall \in Times :
          current_bearer_token = NexudusBearerToken_from_json(json, now, wall).value
    /\ page = 1
    /\ all_coworkers = <<>>
    /\ is_complete = FALSE
    /\ pages_fetched = 0
    /\ expected_records = None
    /\ result = None
    /\ raised = None
    /\ server \in Servers
    /\ nRequests = 0
    /\ n401 = 0
    /\ nRefresh = 0
    /\ lastSent = 0
    /\ lastEvent = "start"
    /\ received = <<>>
    /\ lastResponse = None
    /\ lastAuth = None
    /\ lastContent = None

Next ==
    \/ ListingSuccess
    \/ ListingUnauthorized
    \/ ListingError
    \/ Return
    \/ RefreshSuccess
    \/ RefreshFailure

Spec == Init /\ [][Next]_vars

\* The program runs on and every request is answered: some step is taken
\* whenever one is possible.  The servers of this specification fix the records
\* of a page; cursors and HasNextPage are as free as before.
FairInit == Init /\ server.kind \notin {"arbitrary", "teams"}

FairSpec == FairInit /\ [][Next]_vars /\ WF_vars(Next)

TypeOK ==
    /\ pc \in {"loop", "refresh", "done", "raised"}
    /\ page \in 1 .. max_pages + 1
    /\ pages_fetched \in 0 .. max_pages
    /\ is_complete \in BOOLEAN
    /\ server \in Servers

(***************************************************************************)
(* Properties.                                                             *)
(***************************************************************************)
RECURSIVE PagesRecords(_)
\* the raw records of pages 1..n of the catalogue, in page order
PagesRecords(n) == IF n = 0 THEN <<>> ELSE PagesRecords(n - 1) \o Catalogue(n)

AsCoworkers(records) ==
    [i \in 1 .. Len(records) |-> NexudusCoworker_from_json(records[i]).value]

AllAnsweredWithSuccess == n401 = 0 /\ raised = None

\* C1: against a paged server of N pages (1 <= N <= 5) that answers every
\* request with success, the k-th listing request carries cursor k, there are
\* never more than N requests, and at the return exactly N requests were
\* issued and the result is the records of pages 1..N in page order.
C1_PagedFetch ==
    (server.kind = "paged" /\ AllAnsweredWithSuccess) =>
        /\ nRequests >= 1 => lastSent = nRequests
        /\ nRequests <= server.N
        /\ pc = "done" =>
              /\ nRequests = server.N
              /\ result = Some(AsCoworkers(PagesRecords(server.N)))

C1_Witness ==
    /\ pc = "done"
    /\ server = [kind |-> "paged", N |-> 3]
    /\ AllAnsweredWithSuccess
    /\ nRequests = 3
    /\ lastSent = 3
    /\ Len(result[1]) = 3

\* C2: pages_fetched never exceeds max_pages = 5, whatever the server does;
\* against an endless server that answers every request with success the
\* fetch returns after exactly 5 pages, never issues a sixth request, and
\* returns the records of pages 1..5, the fifth included.
C2_PageCap ==
    /\ pages_fetched <= max_pages
    /\ Len(received) <= max_pages
    /\ (server.kind = "endless" /\ AllAnsweredWithSuccess) =>
          /\ nRequests <= max_pages
          /\ nRequests = pages_fetched
          /\ is_complete <=> pages_fetched = max_pages
          /\ pc = "done" =>
                /\ nRequests = max_pages
                /\ result = Some(AsCoworkers(PagesRecords(max_pages)))

C2_Witness ==
    /\ pc = "done"
    /\ server.kind = "endless"
    /\ AllAnsweredWithSuccess
    /\ pages_fetched = max_pages
    /\ nRequests = max_pages
    /\ result[1][Len(result[1])] = NexudusCoworker_from_json(Bob).value

\* the records a paged or an endless server lets one fetch collect
CollectedFrom(srv) ==
    AsCoworkers(PagesRecords(IF srv.kind = "paged" THEN srv.N ELSE max_pages))

\* C3: a 401 on the request for page k makes the handler call refresh exactly
\* once and leaves the cursor at k; when the refresh succeeds the next step is
\* a listing request for page k again; and the list returned against a paged or
\* an endless server is the records of its pages, each once and in order, as in
\* the run without any 401.
C3_RetrySamePage ==
    /\ [](nRefresh = n401)
    /\ []((pc = "done" /\ server.kind \in {"paged", "endless"}) =>
              result = Some(CollectedFrom(server)))
    /\ [][/\ lastEvent' = "unauthorized" =>
                /\ pc' = "refresh"
                /\ nRefresh' = nRefresh + 1
                /\ lastSent' = page
                /\ page' = page
          /\ lastEvent' = "refreshed" =>
                /\ pc' = "loop"
                /\ nRefresh' = nRefresh
                /\ page' = lastSent
                /\ all_coworkers' = all_coworkers
          /\ lastEvent = "refreshed" =>
                /\ nRequests' = nRequests + 1
                /\ lastSent' = lastSent]_vars

C3_Witness ==
    /\ pc = "done"
    /\ server = [kind |-> "paged", N |-> 3]
    /\ n401 = 1
    /\ nRefresh = 1
    /\ nRequests = 4
    /\ result = Some(AsCoworkers(PagesRecords(3)))

\* C4: after a listing response with a non-success status other than 401 the
\* fetch has raised and returned nothing, whatever was accumulated, and the
\* program takes no further step: no listing request and no refresh follow.
C4_OtherStatusAborts ==
    lastEvent = "http_error" =>
        /\ pc = "raised"
        /\ raised = Some("HTTPStatusError")
        /\ result = None
        /\ nRefresh = n401
        /\ ~ENABLED Next

C4_Witness ==
    /\ lastEvent = "http_error"
    /\ pages_fetched = 2
    /\ Len(all_coworkers) >= 2
    /\ pc = "raised"

Terminated == pc \in {"done", "raised"}

\* C5: when the listing endpoint answers 401 only finitely often (at most
\* Max401 times) and every request is answered, get_all_coworkers eventually
\* returns or raises, also against a server that reports HasNextPage on every
\* page.
C5_Terminates == <>Terminated

C5_Witness ==
    /\ pc = "done"
    /\ server.kind = "endless"
    /\ n401 >= 1
    /\ pages_fetched = max_pages

\* C6: a refresh answered with a non-success status raises and leaves the
\* manager's token as it was, field by field.
C6_FailedRefreshKeepsToken ==
    [][lastEvent' = "refresh_failed" =>
          /\ pc = "refresh"
          /\ pc' = "raised"
          /\ raised' = Some("HTTPStatusError")
          /\ current_bearer_token' = current_bearer_token]_vars

C6_Witness ==
    /\ lastEvent = "refresh_failed"
    /\ pc = "raised"
    /\ raised = Some("HTTPStatusError")
    /\ nRefresh = 2
    /\ current_bearer_token.refresh_token = "rt1"

\* C7: a refresh called while the held token has an empty refresh token
\* raises and leaves the held token unchanged, whatever the token endpoint
\* answers.
C7_EmptyRefreshTokenRaises ==
    [][(pc = "refresh" /\ current_bearer_token.refresh_token = "") =>
          /\ pc' = "raised"
          /\ raised' # None
          /\ current_bearer_token' = current_bearer_token]_vars

\* C8: a 401 whose refresh succeeds raises nothing and the loop goes on; a
\* refresh that fails ends the fetch with the refresh's error and no result,
\* and no further step follows: the loop does not retry it.  Nothing but a
\* non-401 status, an unparsable page or a failed refresh makes the fetch
\* raise.
C8_RefreshOutcome ==
    /\ lastEvent = "unauthorized" => pc = "refresh" /\ raised = None
    /\ lastEvent = "refreshed" => pc = "loop" /\ raised = None /\ result = None
    /\ lastEvent = "refresh_failed" =>
          /\ pc = "raised"
          /\ raised = Some("HTTPStatusError")
    /\ lastEvent = "refresh_unparsed" =>
          /\ pc = "raised"
          /\ raised = Some("KeyError")
    /\ lastEvent \in {"refresh_failed", "refresh_unparsed"} =>
          /\ result = None
          /\ nRefresh = n401
          /\ ~ENABLED Next
    /\ raised # None =>
          lastEvent \in {"http_error", "parse_error", "refresh_failed",
                         "refresh_unparsed"}

C8_Witness ==
    /\ lastEvent = "refresh_failed"
    /\ pc = "raised"
    /\ n401 = 2
    /\ pages_fetched = 1
    /\ result = None

\* the bound on listing requests in Requesting never stops the program
RequestBoundIsSlack ==
    (pc = "loop" /\ LoopContinues) => nRequests < MaxRequests

RECURSIVE Flatten(_)
\* the concatenation of a sequence of sequences
Flatten(seqs) == IF seqs = <<>> THEN <<>> ELSE Head(seqs) \o Flatten(Tail(seqs))

RECURSIVE SumLen(_)
SumLen(seqs) == IF seqs = <<>> THEN 0 ELSE Len(Head(seqs)) + SumLen(Tail(seqs))

\* C9: the accumulated list, and the list returned, is the concatenation of
\* the Records of the successful responses in the order they were received,
\* each record mapped in its place: nothing is reordered, dropped or
\* deduplicated, and the length is the sum of the lengths of the Records.
C9_ResultIsConcatenation ==
    /\ all_coworkers = AsCoworkers(Flatten(received))
    /\ Len(all_coworkers) = SumLen(received)
    /\ pc = "done" =>
          /\ result = Some(AsCoworkers(Flatten(received)))
          /\ Len(result[1]) = SumLen(received)
    /\ pc # "done" => result = None

C9_Witness ==
    /\ pc = "done"
    /\ server.kind = "arbitrary"
    /\ received = << <<Bob, Ann>>, <<>>, <<Ann>> >>
    /\ Len(result[1]) = 3
    /\ result[1][2] = result[1][3]

\* C10: the token the manager holds always has
\* expires_at = issued_at + expires_in_ms, as built by from_json with or
\* without a supplied now, and after successful and failed refreshes.
C10_ExpiryDerived ==
    current_bearer_token.expires_at =
        current_bearer_token.issued_at + current_bearer_token.expires_in_ms

C10_Witness ==
    /\ lastEvent = "refresh_failed"
    /\ nRefresh = 2
    /\ current_bearer_token.expires_in_ms = 3
    /\ current_bearer_token.issued_at = 1
    /\ current_bearer_token.expires_at = 4

(***************************************************************************)
(* C11: the team ids of a coworker                                         *)
(***************************************************************************)
\* the elements of a comma-separated string: its maximal comma-free stretches
ElementsOf(chars) ==
    {SubSeq(chars, i, j) : <<i, j>> \in
        {ij \in (1 .. Len(chars) + 1) \X (0 .. Len(chars)) :
            /\ ij[1] <= ij[2] + 1
            /\ ij[1] = 1 \/ chars[ij[1] - 1] = ","
            /\ ij[2] = Len(chars) \/ chars[ij[2] + 1] = ","
            /\ \A k \in ij[1] .. ij[2] : chars[k] # ","}}

IsInteger(element) ==
    element # <<>> /\ \A k \in 1 .. Len(element) : IsDigit(element[k])

\* the integer a string of decimal digits denotes
RECURSIVE Decimal(_)
Decimal(element) ==
    IF Len(element) = 1 THEN DigitValue(element[1])
    ELSE 10 * Decimal(SubSeq(element, 1, Len(element) - 1))
             + DigitValue(element[Len(element)])

TeamIdsAbsent(json) == json = JNull \/ json = JStr(<<>>)

TomFetched == server.kind = "teams" /\ lastEvent \in {"page", "returned"}

\* C11: a coworker whose TeamIds is "" or null is parsed, with no team ids;
\* a coworker whose TeamIds is a comma-separated list of integers is parsed,
\* and its team ids are the set of those integers, so "3,7,7" gives {3, 7}.
C11_TeamIds ==
    server.kind = "teams" =>
        /\ TeamIdsAbsent(server.TeamIds)
              => /\ lastEvent # "parse_error"
                 /\ TomFetched => all_coworkers[1].team_ids = {}
        /\ ~TeamIdsAbsent(server.TeamIds)
              => /\ (\A e \in ElementsOf(server.TeamIds.chars) : IsInteger(e))
                        => lastEvent # "parse_error"
                 /\ TomFetched
                        => all_coworkers[1].team_ids
                             = {Decimal(e) : e \in ElementsOf(server.TeamIds.chars)}
        /\ server.TeamIds = JStr(<<"3", ",", "7", ",", "7">>) /\ TomFetched
              => all_coworkers[1].team_ids = {3, 7}

C11_Witness ==
    /\ server.kind = "teams"
    /\ server.TeamIds = JStr(<<"3", ",", "7", ",", "7">>)
    /\ lastEvent = "page"
    /\ all_coworkers[1].team_ids = {3, 7}

(***************************************************************************)
(* C12: the rendering of a Token hides its secrets                         *)
(***************************************************************************)
SecretValues == {"at1", "at2", "rt1", "", "hunter2"}

\* C12: the rendering of the held Token is the same whatever its
\* access_token and refresh_token are, and shows "****" for both.
C12_ReprHidesSecrets ==
    /\ \A a, r \in SecretValues :
          NexudusBearerToken_repr([current_bearer_token EXCEPT
                                      !.access_token = a, !.refresh_token = r])
              = NexudusBearerToken_repr(current_bearer_token)
    /\ NexudusBearerToken_repr(current_bearer_token)[2] = <<"access_token", "****">>
    /\ NexudusBearerToken_repr(current_bearer_token)[3] = <<"refresh_token", "****">>

C12_Witness ==
    /\ lastEvent = "refreshed"
    /\ current_bearer_token.access_token = "at1"
    /\ current_bearer_token.refresh_token = "rt1"
    /\ NexudusBearerToken_repr(current_bearer_token)
          = NexudusBearerToken_repr([current_bearer_token EXCEPT
                                        !.access_token = "at2", !.refresh_token = ""])

(***************************************************************************)
(* C13: what a 401 leaves alone                                            *)
(***************************************************************************)
\* C13: the step that handles a 401 response changes none of the accumulated
\* records, the page cursor, pages_fetched, expected_records and the
\* completion flag, nor the held Token; the refresh that follows changes none
\* of the five either and hands back to the loop, so that from before the 401
\* to the next iteration only the held Token may have changed.
C13_UnauthorizedFrame ==
    [][/\ lastEvent' = "unauthorized"
            => /\ UNCHANGED <<fetchVars, current_bearer_token, result, raised>>
               /\ pc' = "refresh"
       /\ lastEvent = "unauthorized" /\ lastEvent' = "refreshed"
            => /\ UNCHANGED <<fetchVars, result, raised>>
               /\ pc' = "loop"]_vars

C13_Witness ==
    /\ lastEvent = "refreshed"
    /\ pc = "loop"
    /\ pages_fetched = 2
    /\ page = 3
    /\ Len(all_coworkers) = 3
    /\ expected_records # None
    /\ ~is_complete

(***************************************************************************)
(* C14: completion and the next cursor                                     *)
(***************************************************************************)
\* C14: when a page response has been handled, the fetch is complete exactly
\* if pages_fetched, which counts that page, is at least 5 or the response's
\* HasNextPage is false; if it is not complete the cursor of the next request
\* is the response's CurrentPage plus one, whatever page had been requested.
C14_CompletionAndCursor ==
    lastEvent = "page" =>
        /\ lastResponse # None
        /\ is_complete <=> (pages_fetched >= 5 \/ ~lastResponse[1].HasNextPage)
        /\ ~is_complete => page = lastResponse[1].CurrentPage + 1

\* the server reported a page other than the requested one
C14_Witness ==
    /\ lastEvent = "page"
    /\ ~is_complete
    /\ lastSent = 1
    /\ lastResponse[1].CurrentPage = 2
    /\ page = 3

(***************************************************************************)
(* C15: the authorization header                                           *)
(***************************************************************************)
\* C15: every step that issues a listing request sends the header
\* authorization = "Bearer " followed by the access token of the Token held
\* when the step starts, the first request after a successful refresh
\* included, and building the header leaves the held Token as it is.
C15_AuthorizationHeader ==
    [][nRequests' = nRequests + 1
          => /\ lastAuth' = Some([authorization |->
                                    "Bearer " \o current_bearer_token.access_token])
             /\ current_bearer_token' = current_bearer_token]_vars

\* the request that follows a 401 and a refresh carries the token of the
\* refresh
C15_Witness ==
    /\ nRequests = 2
    /\ n401 = 1
    /\ lastEvent = "page"
    /\ current_bearer_token.access_token = "at2"
    /\ lastAuth = Some([authorization |-> "Bearer at2"])

(***************************************************************************)
(* C16: no limit on the retries                                            *)
(***************************************************************************)
\* every listing request so far was answered 401 and every refresh succeeded
OnlyUnauthorizedSoFar ==
    /\ n401 = nRequests
    /\ lastEvent \in {"start", "unauthorized", "refreshed"}

\* C16: as long as every listing request is answered 401 and every refresh
\* succeeds, get_all_coworkers has neither returned nor raised, however many
\* 401s there were: after a 401 it is refreshing, after the refresh it is back
\* in the loop, not complete, about to request page 1 again with nothing
\* fetched, and it has refreshed once for each 401.
C16_RetriesWithoutLimit ==
    OnlyUnauthorizedSoFar =>
        /\ pc \in {"loop", "refresh"}
        /\ pc = "refresh" <=> lastEvent = "unauthorized"
        /\ result = None /\ raised = None
        /\ LoopContinues
        /\ page = 1 /\ pages_fetched = 0 /\ all_coworkers = <<>>
        /\ nRequests >= 1 => lastSent = 1
        /\ nRefresh = n401

C16_Witness ==
    /\ OnlyUnauthorizedSoFar
    /\ n401 = 2
    /\ nRefresh = 2
    /\ lastEvent = "refreshed"
    /\ pc = "loop"
    /\ LoopContinues

(***************************************************************************)
(* C17: the content of the refresh request                                 *)
(***************************************************************************)
\* C17: the content posted to the token endpoint is exactly
\* "grant_type=refresh_token&refresh_token=" followed by the held refresh
\* token, with no other character, and after a successful refresh the held
\* Token is one parsed from a response of the token endpoint.
C17_RefreshContentVerbatim ==
    /\ lastContent # None
          => lastContent = Some("grant_type=refresh_token&refresh_token="
                                    \o current_bearer_token.refresh_token)
    /\ lastEvent = "refreshed"
          => \E json \in TokenJsons, wall \in Times :
                current_bearer_token
                    = NexudusBearerToken_from_json(json, None, wall).value

(***************************************************************************)
(* C18: when the held Token changes                                        *)
(***************************************************************************)
\* C18: refresh_bearer_token has been called once for each 401 listing
\* response and is called by no step but the one that handles a 401; the held
\* Token changes only in the step that ends such a refresh with success; a
\* step that handles a page leaves it, expired or not.
C18_TokenChangesOnlyOnRefresh ==
    /\ [](nRefresh = n401)
    /\ [][/\ nRefresh' # nRefresh
                 => /\ lastEvent' = "unauthorized"
                    /\ nRefresh' = nRefresh + 1
                    /\ n401' = n401 + 1
          /\ current_bearer_token' # current_bearer_token
                 => (lastEvent = "unauthorized" /\ lastEvent' = "refreshed")
          /\ lastEvent' = "page"
                 => current_bearer_token' = current_bearer_token]_vars

\* two pages fetched with a Token that expired the moment it was issued
C18_Witness ==
    /\ lastEvent = "page"
    /\ pages_fetched = 2
    /\ current_bearer_token.expires_at <= current_bearer_token.issued_at
    /\ n401 = 0
    /\ nRefresh = 0

(***************************************************************************)
(* C19: a page that does not parse                                         *)
(***************************************************************************)
TeamIdsUnparsable(json) ==
    /\ ~TeamIdsAbsent(json)
    /\ \E e \in ElementsOf(json.chars) : ~IsInteger(e)

\* C19: no page with a record that does not parse is ever accepted; when a
\* success response does not parse the fetch has raised KeyError or
\* ValueError, nothing is returned, no step follows (no retry, no further
\* page), no refresh was called for it and none of the page's records was
\* accumulated; a record whose TeamIds has an element that is no integer
\* makes the fetch end that way.
C19_UnparsablePageAborts ==
    /\ \A i \in 1 .. Len(received) : \A j \in 1 .. Len(received[i]) :
          NexudusCoworker_from_json(received[i][j]).ok
    /\ lastEvent = "parse_error"
          => /\ pc = "raised"
             /\ raised \in {Some("KeyError"), Some("ValueError")}
             /\ result = None
             /\ ~ENABLED Next
             /\ nRefresh = n401
             /\ all_coworkers = AsCoworkers(Flatten(received))
             /\ pages_fetched \in {Len(received), Len(received) + 1}
    /\ server.kind = "teams" /\ TeamIdsUnparsable(server.TeamIds)
          => /\ pc # "done"
             /\ received = <<>>
             /\ lastEvent # "page"
             /\ lastResponse # None => lastEvent = "parse_error"

\* the second page holds a record with TeamIds "3,,7": the page was counted
\* and the cursor moved before the record raised
C19_Witness ==
    /\ lastEvent = "parse_error"
    /\ raised = Some("ValueError")
    /\ Len(received) = 1
    /\ pages_fetched = 2
    /\ page # lastSent
    /\ Len(all_coworkers) = Len(received[1])

=============================================================================
